---- MODULE Spec2Model ----
(***************************************************************************)
(* Scholar Seeker (src/streamlit_app.py): one Streamlit session.           *)
(*                                                                         *)
(* A text is a sequence of tokens.  The tokens that matter to the citation *)
(* pattern \[(\d+)\] are single characters ("[", "]", the digits); every   *)
(* fixed string of the program (the apology, the anchor's markup, the      *)
(* system prompt) is one token.                                            *)
(*                                                                         *)
(* The session state (st.session_state) is messages, generating_response   *)
(* and last_citations.  A script run of main() is followed through its     *)
(* positions: "idle" (no run in progress), "create" (inside                *)
(* generate_assistant_response, about to call the endpoint) and "stream"   *)
(* (inside the for loop over the chunks).                                  *)
(***************************************************************************)
EXTENDS Integers, Sequences, FiniteSets, TLC

VARIABLES
    api_key,              \* whether api_key_sidebar() returned a non-empty key
    messages,             \* st.session_state.messages
    generating_response,  \* st.session_state.generating_response
    last_citations_set,   \* 'last_citations' in st.session_state
    last_citations,       \* st.session_state['last_citations']
    pc,                   \* position of the script run
    api_messages,         \* the messages= argument of the last create() call
    full_response,        \* local of generate_assistant_response
    citations,            \* local of generate_assistant_response
    placeholder,          \* what message_placeholder shows
    screen_error,         \* what st.error shows in this run
    screen_warning,       \* whether st.warning is shown in this run
    input_disabled,       \* whether the chat input was rendered disabled
    attempts,             \* create() calls made for the current turn
    stream,               \* the chunks received from the current/last request
    completed,            \* the chunks of the most recently completed response
    any_completed,        \* whether any response has completed
    last_outcome,         \* how the last turn ended
    chunks_seen,          \* chunks delivered in the session (bounds the model)
    in_text,              \* SpecCite: the text argument
    in_citations,         \* SpecCite: the citations argument
    out_text,             \* SpecCite: the returned text
    applied               \* SpecCite: whether the function has been applied

vars == <<api_key, messages, generating_response, last_citations_set,
          last_citations, pc, api_messages, full_response, citations,
          placeholder, screen_error, screen_warning, input_disabled, attempts,
          stream, completed, any_completed, last_outcome, chunks_seen,
          in_text, in_citations, out_text, applied>>

sessionVars == <<api_key, messages, generating_response, last_citations_set,
          last_citations, pc, api_messages, full_response, citations,
          placeholder, screen_error, screen_warning, input_disabled, attempts,
          stream, completed, any_completed, last_outcome, chunks_seen>>

citeVars == <<in_text, in_citations, out_text, applied>>

-----------------------------------------------------------------------------
(* Bounds of the model *)

MaxTurns == 2

MaxChunks == 2

MaxTextLen == 6

MaxCites == 2

-----------------------------------------------------------------------------
(* Texts *)

Digits == {"0", "1", "2", "3", "4", "5", "6", "7", "8", "9"}

DigitValue(c) ==
    CASE c = "0" -> 0 [] c = "1" -> 1 [] c = "2" -> 2 [] c = "3" -> 3
      [] c = "4" -> 4 [] c = "5" -> 5 [] c = "6" -> 6 [] c = "7" -> 7
      [] c = "8" -> 8 [] c = "9" -> 9

RECURSIVE int(_)
int(ds) ==
    IF ds = <<>> THEN 0
    ELSE 10 * int(SubSeq(ds, 1, Len(ds) - 1)) + DigitValue(ds[Len(ds)])

Apology == <<"Apologies, an error occurred during research retrieval.">>

SystemMessage == [role |-> "system", content |-> <<"You are Scholar Seeker, ...">>]

Cursor == "CURSOR"

-----------------------------------------------------------------------------
(* replace_citation_markers *)

replace_marker_no_adjust(marker, group1, cites) ==
    LET index == int(group1)
    IN  IF 0 <= index /\ index < Len(cites)
        THEN <<"<a href=\"", cites[index + 1], "\" target=\"_blank\">">>
                 \o marker \o <<"</a>">>
        ELSE marker

replace_marker(marker, group1, cites) ==
    LET index == int(group1) - 1
    IN  IF 0 <= index /\ index < Len(cites)
        THEN <<"<a href=\"", cites[index + 1], "\" target=\"_blank\">">>
                 \o marker \o <<"</a>">>
        ELSE marker

\* The position after the longest run of digits that starts at position i.
RECURSIVE DigitsEnd(_, _)
DigitsEnd(text, i) ==
    IF i <= Len(text) /\ text[i] \in Digits THEN DigitsEnd(text, i + 1) ELSE i

\* re.sub: scan from the left; at each position try the pattern, replace a
\* match and continue after it, otherwise copy one token and move on.
RECURSIVE re_sub(_, _, _)
re_sub(text, i, cites) ==
    IF i > Len(text) THEN <<>>
    ELSE LET j == DigitsEnd(text, i + 1)
         IN  IF text[i] = "[" /\ j > i + 1 /\ j <= Len(text) /\ text[j] = "]"
             THEN replace_marker(SubSeq(text, i, j), SubSeq(text, i + 1, j - 1), cites)
                      \o re_sub(text, j + 1, cites)
             ELSE <<text[i]>> \o re_sub(text, i + 1, cites)

replace_citation_markers(text, cites) == re_sub(text, 1, cites)

-----------------------------------------------------------------------------
(* generate_assistant_response: its pure parts *)

RECURSIVE HistoryPayload(_)
HistoryPayload(msgs) ==
    IF msgs = <<>> THEN <<>>
    ELSE <<[role |-> Head(msgs).role, content |-> Head(msgs).content]>>
             \o HistoryPayload(Tail(msgs))

BuildApiMessagesSystemLast(msgs) == HistoryPayload(msgs) \o <<SystemMessage>>

BuildApiMessages(msgs) == <<SystemMessage>> \o HistoryPayload(msgs)

CollectCitations(cits, chunk) ==
    IF chunk.has_citations /\ chunk.citations # <<>>
    THEN cits \o chunk.citations
    ELSE cits

AccumulateTextPrepend(full, delta) ==
    IF delta.present THEN delta.content \o full ELSE full

AccumulateText(full, delta) ==
    IF delta.present THEN full \o delta.content ELSE full

StoreCitationsMerged(old, cits) == old \o cits

StoreCitations(old, cits) == cits

ErrorBanner(e) == <<"Research query error: ", e>>

-----------------------------------------------------------------------------
(* Inputs *)

Prompts == {<<"q">>, <<"r">>}

ExceptionMessages == {"Connection error."}

IndexErrorMessage == "list index out of range"

Deltas == {[present |-> FALSE, content |-> <<>>],
           [present |-> TRUE, content |-> <<>>],
           [present |-> TRUE, content |-> <<"x">>],
           [present |-> TRUE, content |-> <<"[", "1", "]">>]}

CitationPayloads == {[has_citations |-> FALSE, citations |-> <<>>],
                     [has_citations |-> TRUE, citations |-> <<"u1">>],
                     [has_citations |-> TRUE, citations |-> <<"u2">>]}

Chunks == {[has_citations |-> c.has_citations, citations |-> c.citations,
            choices |-> ch] :
              c \in CitationPayloads, ch \in {<<>>} \cup {<<d>> : d \in Deltas}}

Turns(msgs) == Cardinality({i \in DOMAIN msgs : msgs[i].role = "user"})

-----------------------------------------------------------------------------
(* main *)

InputEnabledAlways == TRUE

InputEnabled == ~generating_response

Init ==
    /\ api_key \in BOOLEAN
    /\ messages = <<>>
    /\ generating_response = FALSE
    /\ last_citations_set = FALSE
    /\ last_citations = <<>>
    /\ pc = "idle"
    /\ api_messages = <<>>
    /\ full_response = <<>>
    /\ citations = <<>>
    /\ placeholder = <<>>
    /\ screen_error = <<>>
    /\ screen_warning = FALSE
    /\ input_disabled = FALSE
    /\ attempts = 0
    /\ stream = <<>>
    /\ completed = <<>>
    /\ any_completed = FALSE
    /\ last_outcome = "none"
    /\ chunks_seen = 0
    /\ in_text = <<>>
    /\ in_citations = <<>>
    /\ out_text = <<>>
    /\ applied = FALSE

\* A script run that stops at the missing key.
RunWithoutKey ==
    /\ pc = "idle"
    /\ ~api_key
    /\ screen_warning' = TRUE
    /\ UNCHANGED <<api_key, messages, generating_response, last_citations_set,
                   last_citations, pc, api_messages, full_response, citations,
                   placeholder, screen_error, input_disabled, attempts, stream,
                   completed, any_completed, last_outcome, chunks_seen>>
    /\ UNCHANGED citeVars

\* A script run in which the chat input returns no prompt: the history is
\* drawn again and the input is drawn enabled or disabled.
RunWithoutPrompt ==
    /\ pc = "idle"
    /\ api_key
    /\ input_disabled' = ~InputEnabled
    /\ placeholder' = <<>>
    /\ screen_error' = <<>>
    /\ UNCHANGED <<api_key, messages, generating_response, last_citations_set,
                   last_citations, pc, api_messages, full_response, citations,
                   screen_warning, attempts, stream, completed, any_completed,
                   last_outcome, chunks_seen>>
    /\ UNCHANGED citeVars

\* A script run in which the chat input returns a prompt, up to the point
\* where generate_assistant_response has built api_messages.
AcceptPrompt(prompt) ==
    /\ pc = "idle"
    /\ api_key
    /\ InputEnabled
    /\ Turns(messages) < MaxTurns
    /\ generating_response' = TRUE
    /\ messages' = Append(messages, [role |-> "user", content |-> prompt])
    /\ api_messages' = BuildApiMessages(messages')
    /\ pc' = "create"
    /\ input_disabled' = FALSE
    /\ placeholder' = <<>>
    /\ screen_error' = <<>>
    /\ attempts' = 0
    /\ stream' = <<>>
    /\ last_outcome' = "pending"
    /\ UNCHANGED <<api_key, last_citations_set, last_citations, full_response,
                   citations, screen_warning, completed, any_completed,
                   chunks_seen>>
    /\ UNCHANGED citeVars

\* The except branch of generate_assistant_response, then the rest of main.
Fail(e, outcome) ==
    /\ screen_error' = ErrorBanner(e)
    /\ messages' = Append(messages, [role |-> "assistant", content |-> Apology])
    /\ generating_response' = FALSE
    /\ pc' = "idle"
    /\ last_outcome' = outcome

CreateOk ==
    /\ pc = "create"
    /\ attempts' = attempts + 1
    /\ full_response' = <<>>
    /\ citations' = <<>>
    /\ placeholder' = <<>>
    /\ pc' = "stream"
    /\ UNCHANGED <<api_key, messages, generating_response, last_citations_set,
                   last_citations, api_messages, screen_error, screen_warning,
                   input_disabled, stream, completed, any_completed,
                   last_outcome, chunks_seen>>
    /\ UNCHANGED citeVars

CreateFail(e) ==
    /\ pc = "create"
    /\ attempts' = attempts + 1
    /\ Fail(e, "create_failed")
    /\ UNCHANGED <<api_key, last_citations_set, last_citations, api_messages,
                   full_response, citations, placeholder, screen_warning,
                   input_disabled, stream, completed, any_completed,
                   chunks_seen>>
    /\ UNCHANGED citeVars

ProcessChunk(chunk) ==
    /\ pc = "stream"
    /\ chunks_seen < MaxChunks
    /\ chunk.choices # <<>>
    /\ chunks_seen' = chunks_seen + 1
    /\ stream' = Append(stream, chunk)
    /\ citations' = CollectCitations(citations, chunk)
    /\ full_response' = AccumulateText(full_response, chunk.choices[1])
    /\ placeholder' = IF chunk.choices[1].present
                      THEN Append(full_response', Cursor)
                      ELSE placeholder
    /\ UNCHANGED <<api_key, messages, generating_response, last_citations_set,
                   last_citations, pc, api_messages, screen_error,
                   screen_warning, input_disabled, attempts, completed,
                   any_completed, last_outcome>>
    /\ UNCHANGED citeVars

\* chunk.choices[0] on a chunk without choices raises IndexError.
ChunkIndexError(chunk) ==
    /\ pc = "stream"
    /\ chunks_seen < MaxChunks
    /\ chunk.choices = <<>>
    /\ chunks_seen' = chunks_seen + 1
    /\ stream' = Append(stream, chunk)
    /\ citations' = CollectCitations(citations, chunk)
    /\ Fail(IndexErrorMessage, "stream_failed")
    /\ UNCHANGED <<api_key, last_citations_set, last_citations, api_messages,
                   full_response, placeholder, screen_warning, input_disabled,
                   attempts, completed, any_completed>>
    /\ UNCHANGED citeVars

\* The iteration over response_stream raises.
StreamFail(e) ==
    /\ pc = "stream"
    /\ Fail(e, "stream_failed")
    /\ UNCHANGED <<api_key, last_citations_set, last_citations, api_messages,
                   full_response, citations, placeholder, screen_warning,
                   input_disabled, attempts, stream, completed, any_completed,
                   chunks_seen>>
    /\ UNCHANGED citeVars

StreamEnd ==
    /\ pc = "stream"
    /\ placeholder' = replace_citation_markers(full_response, citations)
    /\ last_citations' = StoreCitations(last_citations, citations)
    /\ last_citations_set' = TRUE
    /\ messages' = Append(messages, [role |-> "assistant", content |-> full_response])
    /\ generating_response' = FALSE
    /\ pc' = "idle"
    /\ last_outcome' = "ok"
    /\ completed' = stream
    /\ any_completed' = TRUE
    /\ UNCHANGED <<api_key, api_messages, full_response, citations, screen_error,
                   screen_warning, input_disabled, attempts, stream, chunks_seen>>
    /\ UNCHANGED citeVars

\* The script run is ended early by something that is not an Exception (the
\* framework's stop/rerun control exceptions, KeyboardInterrupt): the except
\* clause does not catch it and main has no finally.
RunEndedEarly ==
    /\ pc \in {"create", "stream"}
    /\ pc' = "idle"
    /\ last_outcome' = "ended_early"
    /\ UNCHANGED <<api_key, messages, generating_response, last_citations_set,
                   last_citations, api_messages, full_response, citations,
                   placeholder, screen_error, screen_warning, input_disabled,
                   attempts, stream, completed, any_completed, chunks_seen>>
    /\ UNCHANGED citeVars

Next ==
    \/ RunWithoutKey
    \/ RunWithoutPrompt
    \/ \E prompt \in Prompts : AcceptPrompt(prompt)
    \/ CreateOk
    \/ \E e \in ExceptionMessages : CreateFail(e)
    \/ \E chunk \in Chunks : ProcessChunk(chunk)
    \/ \E chunk \in Chunks : ChunkIndexError(chunk)
    \/ \E e \in ExceptionMessages : StreamFail(e)
    \/ StreamEnd
    \/ RunEndedEarly

Spec == Init /\ [][Next]_vars

-----------------------------------------------------------------------------
(* replace_citation_markers applied to arbitrary arguments *)

\* The tokens of the pattern; text outside markers is brackets and digits that
\* form no marker.
Alphabet == {"[", "]", "0", "1", "2"}

Urls == <<"u1", "u2", "u3", "u4">>

Texts == UNION {[1..n -> Alphabet] : n \in 0..MaxTextLen}

CitationLists == {SubSeq(Urls, 1, n) : n \in 0..MaxCites}

InitCite ==
    /\ api_key = TRUE
    /\ messages = <<>>
    /\ generating_response = FALSE
    /\ last_citations_set = FALSE
    /\ last_citations = <<>>
    /\ pc = "idle"
    /\ api_messages = <<>>
    /\ full_response = <<>>
    /\ citations = <<>>
    /\ placeholder = <<>>
    /\ screen_error = <<>>
    /\ screen_warning = FALSE
    /\ input_disabled = FALSE
    /\ attempts = 0
    /\ stream = <<>>
    /\ completed = <<>>
    /\ any_completed = FALSE
    /\ last_outcome = "none"
    /\ chunks_seen = 0
    /\ in_text \in Texts
    /\ in_citations \in CitationLists
    /\ out_text = <<>>
    /\ applied = FALSE

ApplyReplace ==
    /\ ~applied
    /\ out_text' = replace_citation_markers(in_text, in_citations)
    /\ applied' = TRUE
    /\ UNCHANGED <<in_text, in_citations>>
    /\ UNCHANGED sessionVars

NextCite == ApplyReplace

SpecCite == InitCite /\ [][NextCite]_vars

-----------------------------------------------------------------------------
(* What the claims speak of *)

LastMessage == messages[Len(messages)]

\* The text deltas of a stream's chunks, those whose content is present, joined
\* in arrival order.
RECURSIVE PresentText(_)
PresentText(chunks) ==
    IF chunks = <<>> THEN <<>>
    ELSE LET last == chunks[Len(chunks)]
             rest == PresentText(SubSeq(chunks, 1, Len(chunks) - 1))
         IN  IF last.choices # <<>> /\ last.choices[1].present
             THEN rest \o last.choices[1].content
             ELSE rest

\* The citation fragments a stream's chunks delivered, in arrival order.
RECURSIVE DeliveredCitations(_)
DeliveredCitations(chunks) ==
    IF chunks = <<>> THEN <<>>
    ELSE LET last == chunks[Len(chunks)]
             rest == DeliveredCitations(SubSeq(chunks, 1, Len(chunks) - 1))
         IN  IF last.has_citations THEN rest \o last.citations ELSE rest

\* part occurs in whole as a run of consecutive tokens.
Contains(whole, part) ==
    \E k \in 0..(Len(whole) - Len(part)) :
        SubSeq(whole, k + 1, k + Len(part)) = part

PromptAccepted ==
    /\ Len(messages') = Len(messages) + 1
    /\ messages'[Len(messages')].role = "user"

RequestStarted == attempts' = attempts + 1

\* C1: a prompt is accepted only where generating_response is False and no
\* request is in flight; while generating_response is True no prompt is
\* accepted; a request is started only as the first request of an accepted
\* prompt, and whenever a request is in flight generating_response is True.
C1_SingleRequestInFlight ==
    [][ /\ PromptAccepted => (~generating_response /\ pc = "idle")
        /\ generating_response => ~PromptAccepted
        /\ RequestStarted => (generating_response /\ attempts = 0 /\ pc = "create")
        /\ pc # "idle" => generating_response ]_vars

C1_Witness ==
    /\ pc = "stream"
    /\ generating_response
    /\ Len(messages) = 3
    /\ attempts = 1

\* C2: the message list sent to the endpoint starts with the fixed system
\* message, followed by exactly the history's messages in their order; no
\* message of the history has the role system, and while the request runs the
\* history is the one the payload was built from.
C2_PayloadIsSystemThenHistory ==
    api_messages # <<>> =>
        /\ api_messages[1] = SystemMessage
        /\ Len(api_messages) - 1 <= Len(messages)
        /\ \A i \in 1..(Len(api_messages) - 1) :
              /\ api_messages[i + 1].role = messages[i].role
              /\ api_messages[i + 1].content = messages[i].content
              /\ messages[i].role # "system"
        /\ pc # "idle" => Len(api_messages) = Len(messages) + 1

C2_Witness ==
    /\ pc = "stream"
    /\ Len(api_messages) = 4
    /\ api_messages[3].role = "assistant"
    /\ api_messages[2].content # api_messages[4].content

\* C7: last_citations is set exactly when a response has completed, and is
\* then the citation fragments delivered during the most recently completed
\* response, in arrival order.
C7_LastCitationsOfLastCompleted ==
    /\ last_citations_set = any_completed
    /\ any_completed => last_citations = DeliveredCitations(completed)
    /\ ~any_completed => last_citations = <<>>

C7_Witness ==
    /\ pc = "idle"
    /\ last_outcome = "ok"
    /\ Len(messages) = 4
    /\ messages[2].content = <<"[", "1", "]">>
    /\ last_citations = <<"u2">>

\* C9: while a stream is read, and when it has completed without failure, the
\* accumulated text (then returned and appended as the assistant turn) is the
\* concatenation in arrival order of the deltas whose content is present.
C9_ReturnedTextIsConcatenation ==
    /\ pc = "stream" => full_response = PresentText(stream)
    /\ (pc = "idle" /\ last_outcome = "ok") =>
          /\ LastMessage.role = "assistant"
          /\ LastMessage.content = PresentText(stream)

C9_Witness ==
    /\ pc = "idle"
    /\ last_outcome = "ok"
    /\ Len(stream) = 2
    /\ ~stream[1].choices[1].present
    /\ stream[2].choices[1].content = <<"x">>
    /\ LastMessage.content = <<"x">>

\* C3: nothing shown to the user holds the raw exception message.
C3_NoRawExceptionShown ==
    \A i \in DOMAIN screen_error :
        screen_error[i] \notin (ExceptionMessages \cup {IndexErrorMessage})

\* C4: when the stream fails after text was received, the assistant turn
\* appended to the history contains the text received before the failure.
C4_PartialTextReturned ==
    (pc = "idle" /\ last_outcome = "stream_failed" /\ PresentText(stream) # <<>>) =>
        Contains(LastMessage.content, PresentText(stream))

\* C5: when the request fails with a network-level failure, it has been
\* issued exactly 3 times when the failure is reported.
C5_ThreeAttemptsBeforeFailure ==
    (pc = "idle" /\ last_outcome = "create_failed") => attempts = 3

\* C6: after a successful turn the assistant message of the history is the
\* response with its citation markers replaced using its citation list.
C6_HistoryHoldsPostProcessedText ==
    (pc = "idle" /\ last_outcome = "ok") =>
        LastMessage.content =
            replace_citation_markers(PresentText(completed),
                                     DeliveredCitations(completed))

\* C10: once the script run of a turn is over, generating_response is False
\* again and the history ends with the assistant message of that turn.
C10_TurnOverFlagResetAndAnswered ==
    pc = "idle" =>
        /\ ~generating_response
        /\ messages # <<>> => LastMessage.role = "assistant"

-----------------------------------------------------------------------------
(* Citation markers, stated by position *)

\* Positions i..j of text hold a marker: "[", one or more digits, "]".
IsMarker(text, i, j) ==
    /\ 1 <= i /\ i + 1 < j /\ j <= Len(text)
    /\ text[i] = "["
    /\ text[j] = "]"
    /\ \A k \in (i + 1)..(j - 1) : text[k] \in Digits

RECURSIVE Pow10(_)
Pow10(n) == IF n = 0 THEN 1 ELSE 10 * Pow10(n - 1)

RECURSIVE SumOver(_, _, _)
SumOver(text, S, j) ==
    IF S = {} THEN 0
    ELSE LET k == CHOOSE x \in S : TRUE
         IN  DigitValue(text[k]) * Pow10(j - 1 - k) + SumOver(text, S \ {k}, j)

\* The number n a marker at i..j writes.
MarkerNumber(text, i, j) == SumOver(text, (i + 1)..(j - 1), j)

Anchor(url, label) ==
    <<"<a href=\"", url, "\" target=\"_blank\">">> \o label \o <<"</a>">>

Linked(text, cites, i, j) ==
    /\ IsMarker(text, i, j)
    /\ 1 <= MarkerNumber(text, i, j)
    /\ MarkerNumber(text, i, j) <= Len(cites)

\* What position p of the text contributes to the result: the anchor where a
\* marker with 1 <= n <= Len(cites) starts, nothing inside such a marker, and
\* the token itself everywhere else.
Piece(text, cites, p) ==
    IF \E j \in 1..Len(text) : Linked(text, cites, p, j)
    THEN LET j == CHOOSE j \in 1..Len(text) : Linked(text, cites, p, j)
         IN  Anchor(cites[MarkerNumber(text, p, j)], SubSeq(text, p, j))
    ELSE IF \E i \in 1..(p - 1), j \in p..Len(text) : Linked(text, cites, i, j)
         THEN <<>>
         ELSE <<text[p]>>

RECURSIVE JoinPieces(_, _, _)
JoinPieces(text, cites, p) ==
    IF p = 0 THEN <<>>
    ELSE JoinPieces(text, cites, p - 1) \o Piece(text, cites, p)

\* C8: every marker [n] with 1 <= n <= Len(citations) is replaced by the
\* anchor with href citations[n-1] and the marker as its label; every other
\* marker and all text outside markers is left as it is.
C8_MarkersReplacedInRangeOnly ==
    applied => out_text = JoinPieces(in_text, in_citations, Len(in_text))

C8_Witness ==
    /\ applied
    /\ in_text = <<"[", "2", "]", "[", "0", "]">>
    /\ in_citations = <<"u1", "u2">>
    /\ out_text = Anchor("u2", <<"[", "2", "]">>) \o <<"[", "0", "]">>

====
